---- MODULE Spec2Model ----
(***************************************************************************)
(* Model of the recipe-selection page controller                           *)
(*   src/static/src/script.ts  (TypeScript source)                         *)
(*   src/static/script.js      (the script the page serves)                *)
(*                                                                         *)
(* Three independent components share the event loop:                      *)
(*   - the form submission handler (button, progress ring, spinner,        *)
(*     interval timer, fetch, blob download, reset timeouts),              *)
(*   - the selection list and the search filter over the grid items,       *)
(*   - the animated <details> panels.                                      *)
(* Every handler runs to completion; the interleavings are those of the    *)
(* independently scheduled callbacks (interval ticks, promise settlements, *)
(* timeouts, animation frames, DOM events).                                *)
(***************************************************************************)
EXTENDS Integers, Sequences, FiniteSets, TLC

\* ------------------------------------------------------------------ bounds
\* Number of form submissions a behaviour may start.
MaxSubmissions == 2
\* Number of submissions in the behaviours checked for liveness and for the
\* name of the save.
MaxFairSubmissions == 1
\* Number of grid items of the catalog.
NEntries == 3
\* Longest text typed into the search bar.
MaxQueryLen == 2
\* Most transitionend listeners / animation frames pending on the panel.
MaxPending == 4
\* Longest content-disposition header, in tokens.
MaxHeaderLen == 3

\* --------------------------------------------------------- program constants
ProgressIncrement == 2      \* progress += 2
ProgressCap == 100          \* if (progress >= 100) clearInterval(...)
TickInterval == 20          \* setInterval(..., 20)
SuccessDelay == 1000        \* setTimeout(..., 1000)
FailureDelay == 1500        \* setTimeout(..., 1500)
\* circumference = radius * 2 * Math.PI, in units that make it a whole number
Circumference == 100

\* The two implementations of the page script, driven by the same events.
Impl == {"ts", "js"}

\* ------------------------------------------------------------- text content
\* A string is a sequence of tokens; WS is a run of white space.
WS == " "
\* The text the button carries in the page's markup.
InitialLabel == <<"Download">>
GeneratingLabel == <<"Generating...">>
DownloadStartingLabel == <<"Download Starting...">>
ErrorLabel == <<"Error! Try Again">>
\* ring.innerHTML = `\n <circle .../>\n `: the two white-space text nodes of
\* the svg element.
RingText == <<WS, WS>>

VARIABLES
    ctl,                  \* ctl[i]: the button and the closures of implementation i's submit handler
    items,                \* the .grid-item elements, in document order
    selectedList,         \* the <li> texts of #selected-list
    countElement,         \* #selected-items-count
    selectedCountElement, \* #selected-count
    searchValue,          \* the value of #searchBar
    lastOp,               \* the selection/search handler that ran last ("load" at first)
    panel                 \* one <details> element and its pending callbacks

submissionVars == <<ctl>>
selectionVars == <<items, selectedList, countElement, selectedCountElement, searchValue, lastOp>>
panelVars == <<panel>>
vars == <<ctl, items, selectedList, countElement, selectedCountElement, searchValue, lastOp, panel>>

\* ------------------------------------------------------------------- nodes
TextNode(s) == [kind |-> "text", id |-> 0, data |-> s]
RingNode(r) == [kind |-> "ring", id |-> r, data |-> <<>>]
SpinnerNode(k) == [kind |-> "spinner", id |-> k, data |-> <<>>]

\* Node.textContent of one child: the data of its Text descendants.
NodeText(n) ==
    IF n.kind = "text" THEN n.data
    ELSE IF n.kind = "ring" THEN RingText
    ELSE <<>>

RECURSIVE TextContent(_)
\* button.textContent (getter): the children's text in tree order.
TextContent(children) ==
    IF children = <<>> THEN <<>>
    ELSE NodeText(Head(children)) \o TextContent(Tail(children))

\* button.textContent = s (setter): every child is replaced by one Text node.
SetTextContent(s) == <<TextNode(s)>>

\* What the user reads on the button: white space collapses when rendered.
IsInk(t) == t # WS
Rendered(text) == SelectSeq(text, IsInk)

\* button.querySelector('.progress-ring'): the first ring child, 0 for null.
QueryRing(children) ==
    LET hits == {j \in 1..Len(children) : children[j].kind = "ring"}
    IN IF hits = {} THEN 0
       ELSE children[CHOOSE j \in hits : \A h \in hits : j <= h].id

IsRingOf(n, r) == n.kind = "ring" /\ n.id = r
\* ring.remove(): the ring leaves its parent, if it has one.
RemoveRing(children, r) ==
    LET Keep(n) == ~IsRingOf(n, r) IN SelectSeq(children, Keep)

\* createProgressRing: stroke-dashoffset="${circumference}", an empty ring.
createProgressRing == [offset |-> Circumference]

\* -------------------------------------------------- the submit handler's steps
\* A closure of one run of the handler: its locals and where it is suspended.
\*   pc: "fetch" (awaiting fetch), "blob" (awaiting response.blob()),
\*       "succWait" / "failWait" (the handler returned from its try / catch
\*       block), "done" (the reset callback has run).
\*   delay: the delay of the pending reset timeout, 0 when none is pending.
NewClosure(k, ringId, originalText, labelBefore) ==
    [pc |-> "fetch", ring |-> ringId, originalText |-> originalText,
     progress |-> 0, interval |-> TRUE, delay |-> 0,
     spinnerDisplay |-> "block",
     \* what happened to this submission (read by the properties only)
     labelBefore |-> labelBefore, status |-> "pending", body |-> "pending",
     succeeded |-> FALSE, failed |-> FALSE, saves |-> 0,
     \* the content-disposition header read and the a.download of the save
     disposition |-> << >>, download |-> << >>]

\* Variant: the ring of an earlier run is taken again, although it is no
\* child of the button any more.
RingLookupReusingDetached(c) ==
    IF DOMAIN c.rings # {}
    THEN LET old == CHOOSE r \in DOMAIN c.rings : TRUE
         IN [id |-> old, rings |-> c.rings,
             children |-> Append(c.button.children, RingNode(old))]
    ELSE LET new == Len(c.subs) + 1
         IN [id |-> new,
             rings |-> c.rings @@ (new :> createProgressRing),
             children |-> Append(c.button.children, RingNode(new))]

\* let ring = button.querySelector('.progress-ring'); if (!ring) { create, append }
RingLookup(c) ==
    LET found == QueryRing(c.button.children)
    IN IF found # 0
       THEN [id |-> found, rings |-> c.rings, children |-> c.button.children]
       ELSE LET new == Len(c.subs) + 1
            IN [id |-> new,
                rings |-> c.rings @@ (new :> createProgressRing),
                children |-> Append(c.button.children, RingNode(new))]

\* script.ts: const originalText = button.textContent || '' , read after the
\* ring was appended and before the try block.
OriginalTextTs(withRing, withSpinner) == TextContent(withRing)
\* script.js: const originalText = button.textContent, read inside the try
\* block after the spinner was appended.
OriginalTextJs(withRing, withSpinner) == TextContent(withSpinner)

\* The synchronous part of onsubmit, up to the await of fetch.
OnSubmit(i, c) ==
    LET k == Len(c.subs) + 1
        l == RingLookup(c)
        withSpinner == Append(l.children, SpinnerNode(k))
        originalText == IF i = "ts" THEN OriginalTextTs(l.children, withSpinner)
                        ELSE OriginalTextJs(l.children, withSpinner)
    IN [button |-> [disabled |-> TRUE,
                    classes |-> c.button.classes \cup {"loading"},
                    children |-> SetTextContent(GeneratingLabel)],
        rings |-> l.rings,
        subs |-> Append(c.subs, NewClosure(k, l.id, originalText,
                                           TextContent(c.button.children)))]

\* Variant: the callback never clears its interval.
ProgressTickNeverCleared(c, k) ==
    LET s == c.subs[k]
        p == s.progress + ProgressIncrement
        offset == Circumference - (p * Circumference) \div 100
    IN [c EXCEPT !.subs[k].progress = p,
                 !.rings[s.ring].offset = offset]

\* Variant: the callback redraws the ring and does not advance progress.
ProgressTickStalling(c, k) ==
    LET s == c.subs[k]
        p == s.progress
        offset == Circumference - (p * Circumference) \div 100
    IN [c EXCEPT !.rings[s.ring].offset = offset,
                 !.subs[k].interval = ~(p >= ProgressCap)]

\* The setInterval callback of submission k.
ProgressTick(c, k) ==
    LET s == c.subs[k]
        p == s.progress + ProgressIncrement
        offset == Circumference - (p * Circumference) \div 100
    IN [c EXCEPT !.subs[k].progress = p,
                 !.rings[s.ring].offset = offset,
                 !.subs[k].interval = ~(p >= ProgressCap)]

\* Variant: the success branch forgets clearInterval(progressInterval).
SuccessAnimationKeepsInterval(c, k) ==
    [c EXCEPT !.rings[c.subs[k].ring].offset = 0,
              !.button.classes = (@ \ {"loading"}) \cup {"success"},
              !.button.children = SetTextContent(DownloadStartingLabel),
              !.subs[k].succeeded = TRUE,
              !.subs[k].pc = "blob"]

\* After `if (!response.ok) throw`: clearInterval, ring to 0, success styling.
SuccessAnimation(c, k) ==
    [c EXCEPT !.subs[k].interval = FALSE,
              !.rings[c.subs[k].ring].offset = 0,
              !.button.classes = (@ \ {"loading"}) \cup {"success"},
              !.button.children = SetTextContent(DownloadStartingLabel),
              !.subs[k].succeeded = TRUE,
              !.subs[k].pc = "blob"]

\* Variant: the catch block applies the error styling and sets no timeout.
ErrorAnimationNoTimeout(c, k) ==
    [c EXCEPT !.button.classes = (@ \ {"loading"}) \cup {"error"},
              !.button.children = SetTextContent(ErrorLabel),
              !.subs[k].failed = TRUE,
              !.subs[k].pc = "failWait"]

\* Variant: the catch block enables the button at once.
ErrorAnimationEnabling(c, k) ==
    [c EXCEPT !.button.disabled = FALSE,
              !.button.classes = (@ \ {"loading"}) \cup {"error"},
              !.button.children = SetTextContent(ErrorLabel),
              !.subs[k].failed = TRUE,
              !.subs[k].delay = FailureDelay,
              !.subs[k].pc = "failWait"]

\* The catch block: error styling and the reset timeout.
ErrorAnimation(c, k) ==
    [c EXCEPT !.button.classes = (@ \ {"loading"}) \cup {"error"},
              !.button.children = SetTextContent(ErrorLabel),
              !.subs[k].failed = TRUE,
              !.subs[k].delay = FailureDelay,
              !.subs[k].pc = "failWait"]

\* ---- the filename of the save
\* A header value is a sequence of tokens; 'filename=' is one token (the
\* separator overlaps neither itself nor the other tokens).
FilenameKey == "filename="
HeaderAlphabet == {"attachment; ", FilenameKey, "a.zip"}
DefaultName == <<"datapack.zip">>
RECURSIVE HeadersUpTo(_)
HeadersUpTo(n) ==
    IF n = 0 THEN {<< >>}
    ELSE LET shorter == HeadersUpTo(n - 1)
         IN shorter \cup {Append(h, t) : h \in shorter, t \in HeaderAlphabet}
\* The values a content-disposition header may have.
Headers ==
    HeadersUpTo(MaxHeaderLen) \cup {<<"attachment; ", FilenameKey, "datapack.zip">>}
\* response.headers.get('content-disposition'): << >> for null, <<value>>
\* for a header that is present.
NoDisposition == << >>
Dispositions == {NoDisposition} \cup {<<h>> : h \in Headers}

RECURSIVE Split(_, _)
\* String.prototype.split(sep): the pieces between the occurrences of sep.
Split(str, sep) ==
    LET hits == {j \in 1..Len(str) : str[j] = sep}
    IN IF hits = {} THEN <<str>>
       ELSE LET first == CHOOSE j \in hits : \A h \in hits : j <= h
            IN <<SubSeq(str, 1, first - 1)>>
                   \o Split(SubSeq(str, first + 1, Len(str)), sep)

\* Variant: the last piece of the split is taken, not the second.
ResolveFilenameLastPiece(contentDisposition) ==
    LET pieces == IF contentDisposition = << >> THEN << >>
                  ELSE Split(contentDisposition[1], FilenameKey)
    IN IF Len(pieces) < 2 \/ pieces[Len(pieces)] = << >> THEN DefaultName
       ELSE pieces[Len(pieces)]

\* Variant: ?? in place of ||, so an empty name is taken as it is.
ResolveFilenameKeepingEmpty(contentDisposition) ==
    LET pieces == IF contentDisposition = << >> THEN << >>
                  ELSE Split(contentDisposition[1], FilenameKey)
    IN IF Len(pieces) < 2 THEN DefaultName ELSE pieces[2]

\* contentDisposition?.split('filename=')[1] || 'datapack.zip': null and a
\* header without the separator give undefined, and undefined and the empty
\* string are falsy.
ResolveFilename(contentDisposition) ==
    LET pieces == IF contentDisposition = NoDisposition THEN << >>
                  ELSE Split(contentDisposition[1], FilenameKey)
    IN IF Len(pieces) < 2 \/ pieces[2] = << >> THEN DefaultName
       ELSE pieces[2]

\* The blob was read: object URL, anchor with its download name, the click
\* (the save), reset timeout.
SaveBlob(c, k, contentDisposition) ==
    [c EXCEPT !.subs[k].disposition = contentDisposition,
              !.subs[k].download = ResolveFilename(contentDisposition),
              !.subs[k].saves = @ + 1,
              !.subs[k].delay = SuccessDelay,
              !.subs[k].pc = "succWait"]

\* The 1000 ms timeout callback.
ResetAfterSuccess(c, k) ==
    [c EXCEPT !.button.disabled = FALSE,
              !.button.classes = @ \ {"success"},
              !.button.children =
                  RemoveRing(SetTextContent(c.subs[k].originalText), c.subs[k].ring),
              !.subs[k].spinnerDisplay = "none",
              !.subs[k].delay = 0,
              !.subs[k].pc = "done"]

\* The 1500 ms timeout callback of script.ts.
ResetAfterError(c, k) ==
    [c EXCEPT !.button.disabled = FALSE,
              !.button.classes = @ \ {"error"},
              !.button.children =
                  RemoveRing(SetTextContent(c.subs[k].originalText), c.subs[k].ring),
              !.subs[k].spinnerDisplay = "none",
              !.subs[k].delay = 0,
              !.subs[k].pc = "done"]

\* The 1500 ms timeout callback of script.js: originalText is a const of the
\* try block, out of scope in the catch block, so reading it throws a
\* ReferenceError and the callback ends after its first two statements.
ResetAfterErrorJs(c, k) ==
    [c EXCEPT !.button.disabled = FALSE,
              !.button.classes = @ \ {"error"},
              !.subs[k].delay = 0,
              !.subs[k].pc = "done"]

\* Once the handler of a submission has run its reset callback, nothing
\* refers to its originalText and spinner any more; once its interval is
\* cleared too, nothing refers to its progress and ring. What is unreachable
\* is dropped, and a ring is dropped unless it is in the document or a
\* closure still holds it.
Finished(s) ==
    [s EXCEPT !.originalText = << >>, !.spinnerDisplay = "",
              !.labelBefore = << >>, !.status = "pending",
              !.body = "pending", !.succeeded = FALSE, !.failed = FALSE, !.saves = 0,
              !.disposition = << >>, !.download = << >>]
Dropped(s) == [Finished(s) EXCEPT !.ring = 0, !.progress = 0]
Release(c) ==
    LET subs1 == [k \in DOMAIN c.subs |->
                     IF c.subs[k].pc # "done" THEN c.subs[k]
                     ELSE IF c.subs[k].interval THEN Finished(c.subs[k])
                     ELSE Dropped(c.subs[k])]
        held == {subs1[k].ring : k \in DOMAIN subs1}
                    \cup {QueryRing(c.button.children)}
    IN [c EXCEPT !.subs = subs1,
                 !.rings = [r \in DOMAIN c.rings \cap held |-> c.rings[r]]]

\* Variant: the continuation lacks `if (!response.ok) throw`, so a response
\* with an error status is handled like a successful one.
OnFetchSettledIgnoringStatus(c, k, outcome) ==
    LET c1 == [c EXCEPT !.subs[k].status = outcome]
    IN IF outcome # "network_error" THEN SuccessAnimation(c1, k)
       ELSE ErrorAnimation(c1, k)

\* The continuation after `await fetch(...)`.
\*   outcome: "ok" (response.ok), "http_error" (a response that is not ok),
\*            "network_error" (fetch rejects).
OnFetchSettled(c, k, outcome) ==
    LET c1 == [c EXCEPT !.subs[k].status = outcome]
    IN IF outcome = "ok" THEN SuccessAnimation(c1, k) ELSE ErrorAnimation(c1, k)

\* The continuation after `await response.blob()`: the body was read, or
\* reading it failed and the rejection is caught. contentDisposition is what
\* the response's headers hold.
OnBlobSettled(c, k, read, contentDisposition) ==
    LET c1 == [c EXCEPT !.subs[k].body = IF read THEN "read" ELSE "failed"]
    IN IF read THEN SaveBlob(c1, k, contentDisposition) ELSE ErrorAnimation(c1, k)

OnTimeout(i, c, k) ==
    IF c.subs[k].pc = "succWait" THEN ResetAfterSuccess(c, k)
    ELSE IF i = "ts" THEN ResetAfterError(c, k)
    ELSE ResetAfterErrorJs(c, k)

FetchOutcomes == {"ok", "http_error", "network_error"}

\* ------------------------------------------------------------ initial state
ControllerInit ==
    [button |-> [disabled |-> FALSE, classes |-> {},
                 children |-> SetTextContent(InitialLabel)],
     rings |-> << >>,
     subs |-> << >>]

\* Both implementations start from the same page.
InitialCtl == [i \in Impl |-> ControllerInit]

\* ===================================================== selection and search
\* A string is a sequence of characters.
Alphabet == {"a", "A", "b", " "}
\* String.prototype.toLowerCase, character by character.
LowerChar(ch) == IF ch = "A" THEN "a" ELSE ch
ToLowerCase(str) == [j \in 1..Len(str) |-> LowerChar(str[j])]
\* String.prototype.includes: q occurs in str as a contiguous substring.
Includes(str, q) ==
    \E start \in 0..(Len(str) - Len(q)) : SubSeq(str, start + 1, start + Len(q)) = q

\* The display names (data-name) the catalog may carry.
NameSet == {<<"A", "b">>, <<"a", " ", "b">>}
RECURSIVE StringsUpTo(_)
StringsUpTo(n) ==
    IF n = 0 THEN {<< >>}
    ELSE LET shorter == StringsUpTo(n - 1)
         IN shorter \cup {Append(str, ch) : str \in shorter, ch \in Alphabet}
\* What the search bar may hold.
Queries == StringsUpTo(MaxQueryLen)

Entries == 1..NEntries

\* A grid item as the server renders it: its data-name and its checkbox; no
\* 'selected' class and no inline display style yet.
Markup(name, checked) ==
    [name |-> name, checked |-> checked, selected |-> FALSE, display |-> ""]

\* Variant: the listener leaves the items as the server rendered them.
MarkNothing(it) == it

\* DOMContentLoaded: if (checkbox.checked) gridItem.classList.add('selected')
MarkInitiallySelected(it) ==
    [it EXCEPT !.selected = IF it.checked THEN TRUE ELSE @]

\* document.querySelectorAll('.grid-item.selected'), in document order.
RECURSIVE NamesInOrder(_, _)
NamesInOrder(its, from) ==
    IF from > Len(its) THEN << >>
    ELSE IF its[from].selected
         THEN <<its[from].name>> \o NamesInOrder(its, from + 1)
         ELSE NamesInOrder(its, from + 1)

\* updateSelectedList: the list is emptied and rebuilt, the count is the
\* number of <li> appended.
updateSelectedList(its) ==
    LET lis == NamesInOrder(its, 1)
    IN [list |-> lis,
        count |-> ToString(Len(lis)),
        selectedCount |-> <<"Selected: ", ToString(Len(lis))>>]

Rendering(its) ==
    LET r == updateSelectedList(its)
    IN /\ selectedList' = r.list
       /\ countElement' = r.count
       /\ selectedCountElement' = r.selectedCount

\* Variant: the class is toggled and the checkbox is left alone.
toggleItemClassOnly(it) == [it EXCEPT !.selected = ~@]

\* toggleSelection(element, optionId), without its trailing updateSelectedList
toggleItem(it) == [it EXCEPT !.selected = ~@, !.checked = ~@]
\* Variant: selectAll passes over the items the search filter hides.
selectItemIfShown(it) ==
    IF it.display = "none" THEN it
    ELSE [it EXCEPT !.selected = TRUE, !.checked = TRUE]

\* selectAll, per item
selectItem(it) == [it EXCEPT !.selected = TRUE, !.checked = TRUE]
\* deselectAll, per item
deselectItem(it) == [it EXCEPT !.selected = FALSE, !.checked = FALSE]

\* Variant: an item the filter hides also loses its selection.
filterItemDeselecting(it, value) ==
    LET shown == Includes(ToLowerCase(it.name), ToLowerCase(value))
    IN [it EXCEPT !.display = IF shown THEN "block" ELSE "none",
                  !.selected = @ /\ shown, !.checked = @ /\ shown]

\* Variant: the name is compared as written, not lower-cased.
filterItemCaseSensitive(it, value) ==
    [it EXCEPT !.display = IF Includes(it.name, ToLowerCase(value))
                           THEN "block" ELSE "none"]

\* Variant: the empty query is taken to match nothing.
filterItemEmptyMatchesNothing(it, value) ==
    LET query == ToLowerCase(value)
        name == ToLowerCase(it.name)
    IN [it EXCEPT !.display = IF query # << >> /\ Includes(name, query)
                              THEN "block" ELSE "none"]

\* The keyup handler of the search bar, per item.
filterItem(it, value) ==
    LET query == ToLowerCase(value)
        name == ToLowerCase(it.name)
    IN [it EXCEPT !.display = IF Includes(name, query) THEN "block" ELSE "none"]

Visible(it) == it.display # "none"

\* The catalogs the server may render: any names, any initial checks.
Catalogs ==
    {[j \in Entries |-> Markup(names[j], checks[j])] :
        names \in [Entries -> NameSet], checks \in [Entries -> BOOLEAN]}
\* The DOMContentLoaded listener over the rendered catalog.
Loaded(catalog) == [j \in DOMAIN catalog |-> MarkInitiallySelected(catalog[j])]

toggleSelection(j) ==
    /\ items' = [items EXCEPT ![j] = toggleItem(@)]
    /\ Rendering(items')
    /\ lastOp' = "toggleSelection"
    /\ UNCHANGED <<searchValue, submissionVars, panelVars>>

selectAll ==
    /\ items' = [j \in DOMAIN items |-> selectItem(items[j])]
    /\ Rendering(items')
    /\ lastOp' = "selectAll"
    /\ UNCHANGED <<searchValue, submissionVars, panelVars>>

deselectAll ==
    /\ items' = [j \in DOMAIN items |-> deselectItem(items[j])]
    /\ Rendering(items')
    /\ lastOp' = "deselectAll"
    /\ UNCHANGED <<searchValue, submissionVars, panelVars>>

\* A keystroke leaves `value` in the search bar and the keyup handler runs.
Keyup(value) ==
    /\ searchValue' = value
    /\ items' = [j \in DOMAIN items |-> filterItem(items[j], value)]
    /\ lastOp' = "keyup"
    /\ UNCHANGED <<selectedList, countElement, selectedCountElement>>
    /\ UNCHANGED <<submissionVars, panelVars>>

\* ============================================================ <details> panel
\*   open: the open attribute;  height: style.height, "" (automatic),
\*   "summary" (summaryHeight px) or "full" (scrollHeight px);
\*   transition: style.transition is "height 0.3s ease";
\*   handlers: the transitionend listeners registered, in order;
\*   frames: the requestAnimationFrame callbacks pending, by the height they set;
\*   running: a height transition is in progress;
\*   episode (read by the properties only): what the clicks since the panel
\*   was last at rest asked for, "expand" or "collapse" for one click, "many"
\*   for more, "late" once a click has arrived after a transitionend ran a
\*   listener of the same episode, "none" before the first click;
\*   settled (read by the properties only): a transitionend has run a
\*   listener since the episode began.
RestingPanel(o) ==
    [open |-> o, height |-> "", transition |-> FALSE,
     handlers |-> << >>, frames |-> << >>, running |-> FALSE,
     episode |-> "none", settled |-> FALSE]

\* Nothing of an animation is pending: no frame, no listener, no transition.
AtRest(d) == d.handlers = << >> /\ d.frames = << >> /\ ~d.running

\* The click listener of the summary (event.preventDefault() keeps the
\* browser from toggling the open attribute itself).
\* What a click makes of the episode: a click on a panel at rest begins one.
EpisodeAfterClick(d, kind) ==
    IF AtRest(d) THEN kind
    ELSE IF d.settled THEN "late"
    ELSE "many"

\* Variant: the open attribute is not set when an expansion starts.
OnSummaryClickOpeningLate(d) ==
    IF d.open
    THEN [d EXCEPT !.height = "full", !.transition = TRUE,
                   !.frames = Append(@, "summary"),
                   !.handlers = Append(@, "collapse"),
                   !.episode = EpisodeAfterClick(d, "collapse"),
                   !.settled = IF AtRest(d) THEN FALSE ELSE @]
    ELSE [d EXCEPT !.height = "summary", !.transition = TRUE,
                   !.frames = Append(@, "full"),
                   !.handlers = Append(@, "expand"),
                   !.episode = EpisodeAfterClick(d, "expand"),
                   !.settled = IF AtRest(d) THEN FALSE ELSE @]

OnSummaryClick(d) ==
    IF d.open
    THEN [d EXCEPT !.height = "full", !.transition = TRUE,
                   !.frames = Append(@, "summary"),
                   !.handlers = Append(@, "collapse"),
                   !.episode = EpisodeAfterClick(d, "collapse"),
                   !.settled = IF AtRest(d) THEN FALSE ELSE @]
    ELSE [d EXCEPT !.open = TRUE, !.height = "summary", !.transition = TRUE,
                   !.frames = Append(@, "full"),
                   !.handlers = Append(@, "expand"),
                   !.episode = EpisodeAfterClick(d, "expand"),
                   !.settled = IF AtRest(d) THEN FALSE ELSE @]

\* A requestAnimationFrame callback: style.height = <target> px. The height
\* animates when a transition is set and the height was another length.
OnAnimationFrame(d) ==
    LET target == Head(d.frames)
    IN [d EXCEPT !.height = target,
                 !.frames = Tail(@),
                 !.running = @ \/ (d.transition /\ d.height \notin {"", target})]

\* One transitionend listener: it undoes the inline styles, removes the open
\* attribute when it belongs to a collapse, and removes itself.
RunHandler(d, kind) ==
    [d EXCEPT !.open = IF kind = "collapse" THEN FALSE ELSE @,
              !.height = "", !.transition = FALSE,
              !.handlers = Tail(@),
              !.settled = TRUE]

RECURSIVE Dispatch(_, _)
\* A transitionend event reaches the details element: every listener
\* registered when the event is dispatched runs, in registration order.
Dispatch(d, n) ==
    IF n = 0 THEN d ELSE Dispatch(RunHandler(d, Head(d.handlers)), n - 1)

SummaryClick ==
    /\ Len(panel.handlers) < MaxPending
    /\ Len(panel.frames) < MaxPending
    /\ panel' = OnSummaryClick(panel)
    /\ UNCHANGED <<submissionVars, selectionVars>>

AnimationFrame ==
    /\ panel.frames # << >>
    /\ panel' = OnAnimationFrame(panel)
    /\ UNCHANGED <<submissionVars, selectionVars>>

\* The height transition of the details element completes.
TransitionEnd ==
    /\ panel.running
    /\ panel' = [Dispatch(panel, Len(panel.handlers)) EXCEPT !.running = FALSE]
    /\ UNCHANGED <<submissionVars, selectionVars>>

\* A transition of a descendant completes (summary { transition: background
\* 0.3s ease } with summary:hover): its transitionend bubbles to the details
\* element, whose listeners do not look at the event's target.
DescendantTransitionEnd ==
    /\ panel.handlers # << >>
    /\ panel' = Dispatch(panel, Len(panel.handlers))
    /\ UNCHANGED <<submissionVars, selectionVars>>


\* ------------------------------------------------------------------ actions
Started == 1..Len(ctl["ts"].subs)

\* The submit event. The browser does not activate a disabled submit button,
\* which is the only protection against a second submission.
SubmitUpTo(n) ==
    /\ Len(ctl["ts"].subs) < n
    /\ \A i \in Impl : ~ctl[i].button.disabled
    /\ ctl' = [i \in Impl |-> OnSubmit(i, ctl[i])]
    /\ UNCHANGED <<selectionVars, panelVars>>

Submit == SubmitUpTo(MaxSubmissions)
FairSubmit == SubmitUpTo(MaxFairSubmissions)

Tick(k) ==
    /\ \A i \in Impl : ctl[i].subs[k].interval
    /\ ctl' = [i \in Impl |-> Release(ProgressTick(ctl[i], k))]
    /\ UNCHANGED <<selectionVars, panelVars>>

FetchSettles(k, outcome) ==
    /\ \A i \in Impl : ctl[i].subs[k].pc = "fetch"
    /\ ctl' = [i \in Impl |-> OnFetchSettled(ctl[i], k, outcome)]
    /\ UNCHANGED <<selectionVars, panelVars>>

BlobSettles(k, read, contentDisposition) ==
    /\ \A i \in Impl : ctl[i].subs[k].pc = "blob"
    /\ ctl' = [i \in Impl |-> OnBlobSettled(ctl[i], k, read, contentDisposition)]
    /\ UNCHANGED <<selectionVars, panelVars>>

TimeoutFires(k) ==
    /\ \A i \in Impl : ctl[i].subs[k].delay > 0
    /\ ctl' = [i \in Impl |-> Release(OnTimeout(i, ctl[i], k))]
    /\ UNCHANGED <<selectionVars, panelVars>>

\* ------------------------------------------------------------ specifications
\* The whole page: the three components interleave on the event loop.
Init ==
    /\ ctl = InitialCtl
    /\ \E catalog \in Catalogs :
          /\ items = Loaded(catalog)
          /\ selectedList = updateSelectedList(Loaded(catalog)).list
          /\ countElement = updateSelectedList(Loaded(catalog)).count
          /\ selectedCountElement = updateSelectedList(Loaded(catalog)).selectedCount
    /\ searchValue = << >>
    /\ lastOp = "load"
    /\ \E o \in BOOLEAN : panel = RestingPanel(o)

Next ==
    \/ Submit
    \/ \E k \in Started : Tick(k)
    \/ \E k \in Started, outcome \in FetchOutcomes : FetchSettles(k, outcome)
    \/ \E k \in Started, read \in BOOLEAN, h \in Dispositions : BlobSettles(k, read, h)
    \/ \E k \in Started : TimeoutFires(k)
    \/ \E j \in Entries : toggleSelection(j)
    \/ selectAll
    \/ deselectAll
    \/ \E value \in Queries : Keyup(value)
    \/ SummaryClick
    \/ AnimationFrame
    \/ TransitionEnd
    \/ DescendantTransitionEnd

Spec == Init /\ [][Next]_vars

\* The components own disjoint state, so each is checked on its own, the
\* other two left as loaded: one fixed catalog, a closed panel, no submission.
QuietCatalog == [j \in Entries |-> Markup(<<"A", "b">>, FALSE)]

SubmissionInit ==
    /\ ctl = InitialCtl
    /\ items = Loaded(QuietCatalog)
    /\ selectedList = updateSelectedList(Loaded(QuietCatalog)).list
    /\ countElement = updateSelectedList(Loaded(QuietCatalog)).count
    /\ selectedCountElement = updateSelectedList(Loaded(QuietCatalog)).selectedCount
    /\ searchValue = << >>
    /\ lastOp = "load"
    /\ panel = RestingPanel(FALSE)

SubmissionNext ==
    \/ Submit
    \/ \E k \in Started : Tick(k)
    \/ \E k \in Started, outcome \in FetchOutcomes : FetchSettles(k, outcome)
    \/ \E k \in Started, read \in BOOLEAN : BlobSettles(k, read, NoDisposition)
    \/ \E k \in Started : TimeoutFires(k)

SubmissionSpec == SubmissionInit /\ [][SubmissionNext]_vars

\* The content-disposition header decides the name of the save and nothing
\* else, so the submissions above get responses without the header, and the
\* header takes all its values here.
DownloadNext ==
    \/ FairSubmit
    \/ \E k \in Started : Tick(k)
    \/ \E k \in Started, outcome \in FetchOutcomes : FetchSettles(k, outcome)
    \/ \E k \in Started, read \in BOOLEAN, h \in Dispositions : BlobSettles(k, read, h)
    \/ \E k \in Started : TimeoutFires(k)

DownloadSpec == SubmissionInit /\ [][DownloadNext]_vars

\* Timers fire and a body read settles: the reset timeouts and the
\* continuation of response.blob() are weakly fair. Nothing forces a fetch
\* to settle or a user to submit.
FairNext ==
    \/ FairSubmit
    \/ \E k \in Started : Tick(k)
    \/ \E k \in Started, outcome \in FetchOutcomes : FetchSettles(k, outcome)
    \/ \E k \in Started, read \in BOOLEAN : BlobSettles(k, read, NoDisposition)
    \/ \E k \in Started : TimeoutFires(k)

SubmissionFairSpec ==
    /\ SubmissionInit
    /\ [][FairNext]_vars
    /\ WF_vars(\E k \in Started : TimeoutFires(k))
    /\ WF_vars(\E k \in Started, read \in BOOLEAN : BlobSettles(k, read, NoDisposition))

\* An interval that was set and not cleared keeps firing: the callback of
\* every submission's interval is weakly fair. Nothing forces a fetch to
\* settle.
TimerFairSpec ==
    /\ SubmissionInit
    /\ [][FairNext]_vars
    /\ \A k \in 1..MaxFairSubmissions : WF_vars(k \in Started /\ Tick(k))

SelectionInit ==
    /\ ctl = InitialCtl
    /\ \E catalog \in Catalogs :
          /\ items = Loaded(catalog)
          /\ selectedList = updateSelectedList(Loaded(catalog)).list
          /\ countElement = updateSelectedList(Loaded(catalog)).count
          /\ selectedCountElement = updateSelectedList(Loaded(catalog)).selectedCount
    /\ searchValue = << >>
    /\ lastOp = "load"
    /\ panel = RestingPanel(FALSE)

SelectionNext ==
    \/ \E j \in Entries : toggleSelection(j)
    \/ selectAll
    \/ deselectAll
    \/ \E value \in Queries : Keyup(value)

SelectionSpec == SelectionInit /\ [][SelectionNext]_vars

PanelInit ==
    /\ ctl = InitialCtl
    /\ items = Loaded(QuietCatalog)
    /\ selectedList = updateSelectedList(Loaded(QuietCatalog)).list
    /\ countElement = updateSelectedList(Loaded(QuietCatalog)).count
    /\ selectedCountElement = updateSelectedList(Loaded(QuietCatalog)).selectedCount
    /\ searchValue = << >>
    /\ lastOp = "load"
    /\ \E o \in BOOLEAN : panel = RestingPanel(o)

PanelNext ==
    \/ SummaryClick
    \/ AnimationFrame
    \/ TransitionEnd
    \/ DescendantTransitionEnd

PanelSpec == PanelInit /\ [][PanelNext]_vars

\* ==================================================================== claims
Closures(i) == ctl[i].subs
ButtonText(c) == TextContent(c.button.children)
\* No submission is between its submit event and its reset callback.
Idle(c) == \A k \in DOMAIN c.subs : c.subs[k].pc = "done"

\* C1: for every submission and both outcomes, the progress interval is
\* cancelled at or before the step that leaves InFlight: once the request has
\* settled (the closure is past its await of fetch) no interval of that
\* submission is active, so no later tick can move the ring.
C1_IntervalStoppedAtSettlement ==
    \A i \in Impl : \A k \in DOMAIN Closures(i) :
        Closures(i)[k].pc # "fetch" => ~Closures(i)[k].interval

\* C2: from the moment Succeeded is entered until the reset callback removes
\* the ring, the ring of the submission shows 100% (stroke offset 0),
\* whatever number of ticks ran before the request settled.
C2_RingFullWhileSucceeded ==
    \A i \in Impl : \A k \in DOMAIN Closures(i) :
        LET s == Closures(i)[k]
        IN (s.succeeded /\ s.pc # "done") =>
               /\ s.ring \in DOMAIN ctl[i].rings
               /\ ctl[i].rings[s.ring].offset = 0

\* A submission succeeded after some, not all, of its ticks while the
\* interval of an earlier, failed submission is still running.
C2_Witness ==
    \E k \in DOMAIN Closures("ts") : \E e \in DOMAIN Closures("ts") :
        /\ Closures("ts")[k].succeeded
        /\ Closures("ts")[k].pc = "succWait"
        /\ Closures("ts")[k].progress \in 2..98
        /\ e # k /\ Closures("ts")[e].interval

\* C3: when the request settles with a non-success status or fails at
\* network level the controller enters Failed (loading removed, error applied,
\* label 'Error! Try Again') without a save; when the failure timeout fires
\* the button is enabled and shows the label it had before the submission;
\* both kinds of failure lead to the same button.
C3_FailureHandledAndLabelRestored ==
    [][\A i \in Impl : \A k \in DOMAIN Closures(i) :
         LET s == Closures(i)[k]
             t == ctl'[i].subs[k]
             b == ctl'[i].button
         IN /\ (s.pc = "fetch" /\ t.pc # "fetch" /\ t.status # "ok") =>
                   /\ t.pc = "failWait"
                   /\ "error" \in b.classes /\ "loading" \notin b.classes
                   /\ TextContent(b.children) = ErrorLabel
                   /\ t.saves = 0
            /\ (s.pc = "failWait" /\ s.status # "ok" /\ t.pc = "done") =>
                   /\ ~b.disabled
                   /\ Rendered(TextContent(b.children)) = Rendered(s.labelBefore)
                   /\ s.saves = 0
            /\ s.pc = "fetch" =>
                   OnFetchSettled(ctl[i], k, "http_error").button
                       = OnFetchSettled(ctl[i], k, "network_error").button
      ]_vars

\* C4: whenever the controller of script.ts is back in Idle after a
\* submission, the button is enabled, shows its original label, carries none
\* of the loading, success and error classes and holds no progress ring.
C4_IdleButtonRestored ==
    LET c == ctl["ts"]
    IN (c.subs # << >> /\ Idle(c)) =>
           /\ ~c.button.disabled
           /\ Rendered(ButtonText(c)) = Rendered(InitialLabel)
           /\ c.button.classes = {}
           /\ QueryRing(c.button.children) = 0

\* C5: every submission whose request has settled is eventually reset: the
\* reset timeout is always pending with delay 1000 after success and 1500
\* after failure (the shorter one after success), its callback runs whatever
\* else happens meanwhile, and when it has run the button is enabled and no
\* submission is under way.
C5_Settled(k) ==
    k \in Started /\ \A i \in Impl : Closures(i)[k].pc # "fetch"
C5_Reset(k) ==
    k \in Started /\ \A i \in Impl : Closures(i)[k].pc = "done"
C5_EventuallyIdle ==
    /\ [](/\ SuccessDelay < FailureDelay
          /\ \A i \in Impl : \A k \in DOMAIN Closures(i) :
                /\ Closures(i)[k].pc = "succWait" => Closures(i)[k].delay = SuccessDelay
                /\ Closures(i)[k].pc = "failWait" => Closures(i)[k].delay = FailureDelay)
    /\ \A k \in 1..MaxFairSubmissions : C5_Settled(k) ~> C5_Reset(k)
    /\ [][\A i \in Impl : \A k \in DOMAIN Closures(i) :
            (Closures(i)[k].pc # "done" /\ ctl'[i].subs[k].pc = "done") =>
                ~ctl'[i].button.disabled /\ Idle(ctl'[i])]_vars

\* The reset callback of a failed submission has run while the submission's
\* own interval was still ticking.
C5_Witness ==
    \E k \in DOMAIN Closures("ts") :
        /\ Closures("ts")[k].pc = "done"
        /\ Closures("ts")[k].interval
        /\ Closures("ts")[k].progress > 0
        /\ ~ctl["ts"].button.disabled

\* C6: a submission triggers at most one save, only after a response with a
\* success status whose body was read; a submission that went through Failed
\* has triggered none.
C6_SaveOnlyAfterSuccess ==
    \A i \in Impl : \A k \in DOMAIN Closures(i) :
        LET s == Closures(i)[k]
        IN /\ s.saves <= 1
           /\ s.saves = 1 => (s.status = "ok" /\ s.body = "read")
           /\ s.failed => s.saves = 0

\* A second submission has saved its file after the first one failed.
C6_Witness ==
    /\ Len(Closures("ts")) = 2
    /\ Closures("ts")[2].saves = 1
    /\ Closures("js")[2].saves = 1

\* ---- selection and search
RECURSIVE CheckedNames(_, _)
\* The display names of the entries whose checkbox is checked, in catalog order.
CheckedNames(its, from) ==
    IF from > Len(its) THEN << >>
    ELSE (IF its[from].checked THEN <<its[from].name>> ELSE << >>)
             \o CheckedNames(its, from + 1)
CheckedCount(its) == Cardinality({j \in DOMAIN its : its[j].checked})

\* C7: after page load and after every toggleSelection, selectAll and
\* deselectAll, both count labels show the number of checked entries and the
\* list holds exactly the checked entries' names, once each, in catalog order.
C7_RenderingMatchesCheckboxes ==
    /\ selectedList = CheckedNames(items, 1)
    /\ countElement = ToString(CheckedCount(items))
    /\ selectedCountElement = <<"Selected: ", ToString(CheckedCount(items))>>

\* After a toggle, the first and the last entry are checked, the second is
\* not, and the two listed names differ.
C7_Witness ==
    /\ lastOp = "toggleSelection"
    /\ items[1].checked /\ ~items[2].checked /\ items[NEntries].checked
    /\ items[1].name # items[NEntries].name
    /\ Len(selectedList) >= 2

NoMatch(value) ==
    \A j \in DOMAIN items : ~Includes(ToLowerCase(items[j].name), ToLowerCase(value))

\* C8: the search handler changes nothing but visibility: every checkbox,
\* every 'selected' class, the list and both counts are as before, and a
\* query that matches no entry hides every entry.
C8_SearchChangesOnlyVisibility ==
    [][lastOp' = "keyup" =>
         /\ \A j \in DOMAIN items :
               /\ items'[j].checked = items[j].checked
               /\ items'[j].selected = items[j].selected
               /\ items'[j].name = items[j].name
         /\ selectedList' = selectedList
         /\ countElement' = countElement
         /\ selectedCountElement' = selectedCountElement
         /\ NoMatch(searchValue') => \A j \in DOMAIN items : ~Visible(items'[j])
      ]_vars

\* A query has hidden every entry while checked entries are still listed.
C8_Witness ==
    /\ lastOp = "keyup"
    /\ \A j \in DOMAIN items : ~Visible(items[j])
    /\ \E j \in DOMAIN items : items[j].checked
    /\ Len(selectedList) = CheckedCount(items)
    /\ CheckedCount(items) >= 1

\* ---- panel
\* C9: whatever the sequence of header clicks, at most one transitionend
\* listener is registered on the panel at any time, and none is left once no
\* animation frame is pending and no transition is running.
C9_AtMostOneHandler ==
    /\ Len(panel.handlers) <= 1
    /\ (panel.frames = << >> /\ ~panel.running) => panel.handlers = << >>

\* ---- search matching
RECURSIVE TrimStart(_)
TrimStart(str) ==
    IF str # << >> /\ Head(str) = " " THEN TrimStart(Tail(str)) ELSE str
RECURSIVE TrimEnd(_)
TrimEnd(str) ==
    IF str # << >> /\ str[Len(str)] = " "
    THEN TrimEnd(SubSeq(str, 1, Len(str) - 1)) ELSE str
Trim(str) == TrimEnd(TrimStart(str))

\* name contains q when letter case is ignored
ContainsIgnoringCase(name, q) ==
    \E start \in 0..(Len(name) - Len(q)) :
        \A j \in 1..Len(q) : LowerChar(name[start + j]) = LowerChar(q[j])

\* C10 as claimed: after the search handler an entry is visible exactly when
\* its name contains, ignoring case, the trimmed query.
C10_VisibleIffMatchesTrimmedQuery ==
    lastOp = "keyup" =>
        \A j \in DOMAIN items :
            Visible(items[j]) <=> ContainsIgnoringCase(items[j].name, Trim(searchValue))

\* C10 as amended: after the search handler an entry is visible exactly when
\* its name contains, ignoring case, the query as typed, white space at its
\* ends included.
C10_VisibleIffMatchesQueryAsTyped ==
    lastOp = "keyup" =>
        \A j \in DOMAIN items :
            Visible(items[j]) <=> ContainsIgnoringCase(items[j].name, searchValue)

\* The query starts with a space; an entry that the trimmed query would show
\* is hidden, and another entry is shown.
C10_Witness ==
    /\ lastOp = "keyup"
    /\ searchValue # << >> /\ Head(searchValue) = " "
    /\ \E j \in DOMAIN items :
          /\ ~Visible(items[j])
          /\ ContainsIgnoringCase(items[j].name, Trim(searchValue))
    /\ \E j \in DOMAIN items : Visible(items[j])

\* ---- the name of the save
\* The positions of 'filename=' in a header value.
KeyPositions(h) == {j \in 1..Len(h) : h[j] = FilenameKey}
FirstKey(h) == CHOOSE j \in KeyPositions(h) : \A o \in KeyPositions(h) : j <= o
\* The whole of the header after its first 'filename='.
AfterFirstKey(h) == SubSeq(h, FirstKey(h) + 1, Len(h))
\* The header from its first 'filename=' up to the next one, or to its end.
UpToNextKey(h) ==
    LET later == {j \in KeyPositions(h) : j > FirstKey(h)}
        stop == IF later = {} THEN Len(h) + 1
                ELSE CHOOSE j \in later : \A o \in later : j <= o
    IN SubSeq(h, FirstKey(h) + 1, stop - 1)
ExampleHeader == <<"attachment; ", FilenameKey, "datapack.zip">>

\* C11 as claimed: a save whose response has a content-disposition header
\* containing 'filename=' (with something after it) is named by the substring
\* of the header that follows 'filename='; for the header 'attachment;
\* filename=datapack.zip' that is 'datapack.zip'; a save whose response has no
\* such header is named 'datapack.zip'.
C11_NameFollowsFilenameKey ==
    \A i \in Impl : \A k \in DOMAIN Closures(i) :
        LET s == Closures(i)[k]
        IN s.saves = 1 =>
              /\ s.disposition = NoDisposition => s.download = DefaultName
              /\ s.disposition = <<ExampleHeader>> => s.download = <<"datapack.zip">>
              /\ (/\ s.disposition # NoDisposition
                  /\ KeyPositions(s.disposition[1]) # {}
                  /\ AfterFirstKey(s.disposition[1]) # << >>) =>
                     s.download = AfterFirstKey(s.disposition[1])

\* C11 as amended: the save is named by the part of the header between its
\* first 'filename=' and the next 'filename=' (or the end of the header) when
\* that part is not empty, and 'datapack.zip' when it is empty, when the
\* header has no 'filename=' and when there is no header.
C11_NameIsPieceAfterFirstKey ==
    \A i \in Impl : \A k \in DOMAIN Closures(i) :
        LET s == Closures(i)[k]
        IN s.saves = 1 =>
              /\ s.disposition = NoDisposition => s.download = DefaultName
              /\ s.disposition = <<ExampleHeader>> => s.download = <<"datapack.zip">>
              /\ (s.disposition # NoDisposition /\ KeyPositions(s.disposition[1]) # {}) =>
                     s.download = IF UpToNextKey(s.disposition[1]) = << >>
                                  THEN DefaultName
                                  ELSE UpToNextKey(s.disposition[1])
              /\ (s.disposition # NoDisposition /\ KeyPositions(s.disposition[1]) = {}) =>
                     s.download = DefaultName

\* Both scripts have saved the file of a response whose header holds
\* 'filename=' twice, under the name between the two.
C11_Witness ==
    \A i \in Impl :
        /\ Closures(i) # << >>
        /\ Closures(i)[1].saves = 1
        /\ Closures(i)[1].disposition = << <<FilenameKey, "a.zip", FilenameKey>> >>
        /\ Closures(i)[1].download = <<"a.zip">>

\* A header that is present without a 'filename=' part, or with nothing after
\* its 'filename='.
Malformed(h) == KeyPositions(h) = {} \/ AfterFirstKey(h) = << >>

\* C12: a successful response whose body was read leads to the save and to
\* the success reset, never to Failed, whatever its content-disposition
\* header; when the header is malformed the save is named 'datapack.zip'.
C12_MalformedHeaderStillSaves ==
    \A i \in Impl : \A k \in DOMAIN Closures(i) :
        LET s == Closures(i)[k]
        IN /\ s.body = "read" =>
                 /\ s.pc = "succWait" /\ s.succeeded /\ ~s.failed
                 /\ s.saves = 1
           /\ (s.saves = 1 /\ s.disposition # NoDisposition
                  /\ Malformed(s.disposition[1])) => s.download = DefaultName

\* Both scripts have saved, under the default name, the file of a response
\* whose header ends with 'filename='.
C12_Witness ==
    \A i \in Impl :
        /\ Closures(i) # << >>
        /\ Closures(i)[1].pc = "succWait"
        /\ Closures(i)[1].saves = 1 /\ ~Closures(i)[1].failed
        /\ Closures(i)[1].disposition = << <<"attachment; ", FilenameKey>> >>
        /\ Closures(i)[1].download = DefaultName

\* ---- the empty query
\* C13: when the search handler has run with the empty query every entry is
\* shown, whatever was shown before, and no checkbox, no 'selected' class,
\* neither count and not the list has changed.
C13_EmptyQueryShowsAll ==
    [][(lastOp' = "keyup" /\ searchValue' = << >>) =>
         /\ \A j \in DOMAIN items :
               /\ Visible(items'[j])
               /\ items'[j].checked = items[j].checked
               /\ items'[j].selected = items[j].selected
         /\ selectedList' = selectedList
         /\ countElement' = countElement
         /\ selectedCountElement' = selectedCountElement
      ]_vars

\* The search bar was emptied by a keystroke: every entry is shown again
\* (display 'block', which only the handler sets) and one of them is selected.
C13_Witness ==
    /\ lastOp = "keyup"
    /\ searchValue = << >>
    /\ \A j \in DOMAIN items : items[j].display = "block"
    /\ \E j \in DOMAIN items : items[j].checked
    /\ \E j \in DOMAIN items : ~items[j].checked

\* ---- one click on a panel
\* C14: after a single click on the header of a closed panel the open
\* attribute is set at once and stays, and when nothing of the animation is
\* pending any more the panel is open with style.height and style.transition
\* cleared; after a single click on the header of an open panel the open
\* attribute stays as long as the animation frame is pending or the height
\* transition runs, and when nothing is pending any more the panel is closed
\* with style.height cleared.
C14_SingleClick ==
    /\ panel.episode = "expand" =>
          /\ panel.open
          /\ AtRest(panel) => (panel.height = "" /\ ~panel.transition)
    /\ panel.episode = "collapse" =>
          /\ (panel.frames # << >> \/ panel.running) => panel.open
          /\ AtRest(panel) => (~panel.open /\ panel.height = "")

\* ---- the button while a request is in flight
RingCount(children) ==
    Cardinality({j \in 1..Len(children) : children[j].kind = "ring"})
HasSpinner(children, k) ==
    \E j \in 1..Len(children) : children[j] = SpinnerNode(k)

\* C15: as long as a submission awaits its fetch the button is disabled, has
\* the class 'loading' and the label 'Generating...', and the submission's
\* spinner (display block) and progress ring are children of the button.
C15_InFlightVisuals ==
    \A i \in Impl : \A k \in DOMAIN Closures(i) :
        LET s == Closures(i)[k]
            b == ctl[i].button
        IN s.pc = "fetch" =>
              /\ b.disabled
              /\ "loading" \in b.classes
              /\ Rendered(TextContent(b.children)) = GeneratingLabel
              /\ s.spinnerDisplay = "block"
              /\ HasSpinner(b.children, k)
              /\ QueryRing(b.children) = s.ring

\* C16: the button never holds more than one progress ring, and a submit
\* takes the ring that is a child of the button when there is one and makes
\* a new ring, no other submission's, only when there is none.
C16_AtMostOneRing ==
    /\ [](\A i \in Impl : RingCount(ctl[i].button.children) <= 1)
    /\ [][\A i \in Impl :
            Len(ctl'[i].subs) = Len(ctl[i].subs) + 1 =>
               LET found == QueryRing(ctl[i].button.children)
                   taken == ctl'[i].subs[Len(ctl'[i].subs)].ring
               IN /\ found # 0 => taken = found
                  /\ found = 0 => /\ taken \notin DOMAIN ctl[i].rings
                                  /\ taken \in DOMAIN ctl'[i].rings
                                  /\ ctl'[i].rings[taken] = createProgressRing
                                  /\ \A o \in DOMAIN ctl[i].subs :
                                        ctl[i].subs[o].ring # taken
         ]_vars

\* A second submission is in flight with a ring of its own while the ring of
\* the first one is still moved by that submission's interval.
C16_Witness ==
    \A i \in Impl :
        /\ Len(Closures(i)) = 2
        /\ Closures(i)[2].pc = "fetch"
        /\ Closures(i)[1].interval
        /\ Closures(i)[1].ring # Closures(i)[2].ring
        /\ {Closures(i)[1].ring, Closures(i)[2].ring} \subseteq DOMAIN ctl[i].rings

\* C17: the button is disabled exactly while a submission is between its
\* submit event and its reset callback, so at most one submission is under
\* way at any time, and the originalText a submission captures is the label
\* the idle button showed when it started (in script.ts always the label of
\* the page), never the label of a submission under way.
C17_DisabledUntilReset ==
    \A i \in Impl :
        /\ ctl[i].button.disabled <=> ~Idle(ctl[i])
        /\ Cardinality({k \in DOMAIN Closures(i) : Closures(i)[k].pc # "done"}) <= 1
        /\ \A k \in DOMAIN Closures(i) :
              Closures(i)[k].pc # "done" =>
                 /\ Rendered(Closures(i)[k].originalText)
                        = Rendered(Closures(i)[k].labelBefore)
                 /\ Rendered(Closures(i)[k].originalText)
                        \notin {GeneratingLabel, DownloadStartingLabel}
                 /\ i = "ts" => Rendered(Closures(i)[k].originalText) = InitialLabel

\* A second submission has failed and waits for its reset, the button still
\* disabled, its originalText captured from the idle button.
C17_Witness ==
    /\ Len(Closures("ts")) = 2
    /\ Closures("ts")[2].pc = "failWait"
    /\ ctl["ts"].button.disabled
    /\ Rendered(Closures("ts")[2].originalText) = InitialLabel

\* C18: while a submission awaits its fetch its progress is an even number
\* in 0..100; it is 0 when the submission starts, the first or a later one;
\* a step leaves it as it is or raises it by 2.
C18_ProgressMonotone ==
    /\ [](\A i \in Impl : \A k \in DOMAIN Closures(i) :
             Closures(i)[k].pc = "fetch" =>
                /\ Closures(i)[k].progress \in 0..ProgressCap
                /\ Closures(i)[k].progress % ProgressIncrement = 0)
    /\ [][\A i \in Impl : \A k \in DOMAIN ctl'[i].subs :
            IF k \in DOMAIN ctl[i].subs
            THEN (ctl[i].subs[k].pc = "fetch" /\ ctl'[i].subs[k].pc = "fetch") =>
                    /\ ctl'[i].subs[k].progress >= ctl[i].subs[k].progress
                    /\ ctl'[i].subs[k].progress - ctl[i].subs[k].progress
                           \in {0, ProgressIncrement}
            ELSE ctl'[i].subs[k].progress = 0
         ]_vars

\* A second submission is in flight and its interval has brought its
\* progress to 100 and cleared itself.
C18_Witness ==
    \A i \in Impl :
        /\ Len(Closures(i)) = 2
        /\ Closures(i)[2].pc = "fetch"
        /\ Closures(i)[2].progress = ProgressCap
        /\ ~Closures(i)[2].interval

\* ---- selectAll and deselectAll
\* C19: selectAll checks and marks every entry and deselectAll unchecks and
\* unmarks every entry, hidden entries included; neither changes the display
\* of any entry; right after selectAll both counts show the size of the
\* catalog, right after deselectAll they show 0 and the list is empty.
C19_SelectAllDeselectAll ==
    [][/\ lastOp' = "selectAll" =>
            /\ \A j \in Entries :
                  /\ items'[j].checked /\ items'[j].selected
                  /\ items'[j].display = items[j].display
            /\ countElement' = ToString(NEntries)
            /\ selectedCountElement' = <<"Selected: ", ToString(NEntries)>>
            /\ Len(selectedList') = NEntries
       /\ lastOp' = "deselectAll" =>
            /\ \A j \in Entries :
                  /\ ~items'[j].checked /\ ~items'[j].selected
                  /\ items'[j].display = items[j].display
            /\ countElement' = ToString(0)
            /\ selectedCountElement' = <<"Selected: ", ToString(0)>>
            /\ selectedList' = << >>
      ]_vars

\* selectAll has run while the search filter hides one entry and shows
\* another: all entries are checked and the count is the catalog size.
C19_Witness ==
    /\ lastOp = "selectAll"
    /\ \E j \in Entries : ~Visible(items[j])
    /\ \E j \in Entries : items[j].display = "block"
    /\ \A j \in Entries : items[j].checked
    /\ countElement = ToString(NEntries)

\* ---- styling and checkboxes
\* C20: at any time after the page was loaded an entry has the class
\* 'selected' exactly when its checkbox is checked, and the names in the
\* rendered list are the names of the checked entries, those the form submits.
C20_SelectedIffChecked ==
    /\ \A j \in Entries : items[j].selected <=> items[j].checked
    /\ {selectedList[n] : n \in DOMAIN selectedList}
          = {items[j].name : j \in {e \in Entries : items[e].checked}}
    /\ Len(selectedList) = Cardinality({e \in Entries : items[e].checked})

\* After a search, an entry that is checked and marked is hidden and another
\* entry is neither checked nor marked.
C20_Witness ==
    /\ lastOp = "keyup"
    /\ \E j \in Entries : items[j].checked /\ items[j].selected /\ ~Visible(items[j])
    /\ \E j \in Entries : ~items[j].checked /\ ~items[j].selected

\* ---- the two scripts
\* What a user observes of the button: the disabled flag, the treatments
\* applied and the label.
Observed(b) ==
    [disabled |-> b.disabled,
     classes |-> b.classes \cap {"loading", "success", "error"},
     label |-> Rendered(TextContent(b.children))]

\* C21: driven by the same submit, tick, settlement and timeout events, the
\* handler of script.js and the handler of script.ts show the same button
\* (disabled flag, loading / success / error class, label) in every state,
\* the idle state a submission ends in included.
C21_ScriptsAgree ==
    Observed(ctl["js"].button) = Observed(ctl["ts"].button)

\* ---- clicks during a transition
\* C22: as long as a transitionend listener is registered (the panel is
\* Expanding or Collapsing) the open attribute is set, so a click that
\* arrives then registers a collapse, never an expansion; and when two or
\* more clicks have all arrived before any transitionend ran a listener, the
\* panel is closed once nothing of the animation is pending any more,
\* whether the first click found it closed or open.
C22_MidTransitionClickCollapses ==
    /\ [](panel.handlers # << >> => panel.open)
    /\ [][(panel.handlers # << >> /\ Len(panel'.handlers) = Len(panel.handlers) + 1) =>
            /\ panel'.handlers[Len(panel'.handlers)] = "collapse"
            /\ panel'.frames # << >>
            /\ panel'.frames[Len(panel'.frames)] = "summary"
            /\ panel'.open
         ]_vars
    /\ []((panel.episode = "many" /\ AtRest(panel)) => ~panel.open)

\* A panel that was closed got two clicks before any transitionend, its
\* listeners have run, and it is closed again with nothing pending.
C22_Witness ==
    /\ panel.episode = "many"
    /\ AtRest(panel)
    /\ panel.settled
    /\ ~panel.open
    /\ panel.height = ""

\* ---- the end of the progress interval
\* The number of ticks that bring progress from 0 to the cap.
TicksToCap == ProgressCap \div ProgressIncrement
IntervalActive(k) ==
    k \in Started /\ \E i \in Impl : Closures(i)[k].interval
IntervalCleared(k) ==
    k \in Started /\ \A i \in Impl : ~Closures(i)[k].interval

\* C23: the interval of every submission is cleared in the end, whether the
\* request settles or not and however it settles: while the interval is
\* active fewer than 50 of its ticks have run (progress is twice their
\* number and below 100), the tick that brings progress to 100 clears it, a
\* cleared interval is never active again, and an active interval leads to
\* a cleared one.
C23_IntervalEventuallyCleared ==
    /\ [](\A i \in Impl : \A k \in DOMAIN Closures(i) :
             Closures(i)[k].interval =>
                /\ Closures(i)[k].progress % ProgressIncrement = 0
                /\ Closures(i)[k].progress \div ProgressIncrement < TicksToCap)
    /\ [][\A i \in Impl : \A k \in DOMAIN Closures(i) :
            /\ (Closures(i)[k].interval /\ ~ctl'[i].subs[k].interval) =>
                   \/ /\ Closures(i)[k].progress + ProgressIncrement = ProgressCap
                      /\ ctl'[i].subs[k].pc = Closures(i)[k].pc
                   \/ (Closures(i)[k].pc = "fetch" /\ ctl'[i].subs[k].pc = "blob")
            /\ ~Closures(i)[k].interval => ~ctl'[i].subs[k].interval
         ]_vars
    /\ \A k \in 1..MaxFairSubmissions : IntervalActive(k) ~> IntervalCleared(k)

\* A submission has failed, its interval went on ticking during the failure
\* delay and has cleared itself at 100 before the reset.
C23_Witness ==
    \A i \in Impl :
        /\ Closures(i) # << >>
        /\ Closures(i)[1].pc = "failWait"
        /\ Closures(i)[1].failed
        /\ Closures(i)[1].progress = ProgressCap
        /\ ~Closures(i)[1].interval

====
